---- MODULE Spec2Model ----
(***************************************************************************)
(* A model of the casinos.com link scraper backend: the input normalizer   *)
(* and page link extractor of backend/scraper.py, the /scrape handler of   *)
(* backend/app.py and the Google Sheets writer of backend/sheets_writer.py.*)
(* A string is a sequence of one-character strings, so that prefix tests,  *)
(* splitting, URL parsing and URL joining are computed character by        *)
(* character as the Python code and urllib.parse compute them.             *)
(***************************************************************************)
EXTENDS Integers, Sequences, FiniteSets, TLC

\* ------------------------------------------------------------------------
\* Python str operations
\* ------------------------------------------------------------------------

Range(s) == {s[i] : i \in DOMAIN s}

UpperCase == <<"A","B","C","D","E","F","G","H","I","J","K","L","M","N","O","P","Q","R","S","T","U","V","W","X","Y","Z">>

LowerCase == <<"a","b","c","d","e","f","g","h","i","j","k","l","m","n","o","p","q","r","s","t","u","v","w","x","y","z">>

Digits == <<"0","1","2","3","4","5","6","7","8","9">>

\* The characters str.strip() and str.split() treat as whitespace (the ones
\* the model's alphabets contain).
WhiteSpace == {" ", "\t", "\n", "\r", "\f"}

\* The characters str.splitlines() breaks lines at.
LineBreaks == {"\n", "\r", "\f"}

LowerChar(c) ==
    IF c \in Range(UpperCase)
    THEN LowerCase[CHOOSE k \in DOMAIN UpperCase : UpperCase[k] = c]
    ELSE c

RECURSIVE Lower(_)
Lower(s) == IF s = <<>> THEN <<>> ELSE <<LowerChar(Head(s))>> \o Lower(Tail(s))

Take(s, n) == SubSeq(s, 1, n)

Drop(s, n) == SubSeq(s, n + 1, Len(s))

StartsWith(s, p) == Len(s) >= Len(p) /\ Take(s, Len(p)) = p

Contains(s, p) == \E i \in 0..(Len(s) - Len(p)) : SubSeq(s, i + 1, i + Len(p)) = p

\* str.find from a position, 1-based; 0 when there is none.
FindFrom(s, c, k) ==
    IF \E i \in k..Len(s) : s[i] = c
    THEN CHOOSE i \in k..Len(s) : s[i] = c /\ \A j \in k..(i - 1) : s[j] # c
    ELSE 0

Find(s, c) == FindFrom(s, c, 1)

RFind(s, c) ==
    IF \E i \in DOMAIN s : s[i] = c
    THEN CHOOSE i \in DOMAIN s : s[i] = c /\ \A j \in (i + 1)..Len(s) : s[j] # c
    ELSE 0

\* The first position holding one of the characters cs; Len(s) + 1 when none.
FindAny(s, cs) ==
    IF \E i \in DOMAIN s : s[i] \in cs
    THEN CHOOSE i \in DOMAIN s : s[i] \in cs /\ \A j \in 1..(i - 1) : s[j] \notin cs
    ELSE Len(s) + 1

RECURSIVE LStripSet(_, _)
LStripSet(s, cs) ==
    IF s # <<>> /\ Head(s) \in cs THEN LStripSet(Tail(s), cs) ELSE s

RECURSIVE RStripSet(_, _)
RStripSet(s, cs) ==
    IF s # <<>> /\ s[Len(s)] \in cs THEN RStripSet(Take(s, Len(s) - 1), cs) ELSE s

Strip(s) == RStripSet(LStripSet(s, WhiteSpace), WhiteSpace)

RECURSIVE RemoveChars(_, _)
RemoveChars(s, cs) ==
    IF s = <<>> THEN <<>>
    ELSE IF Head(s) \in cs THEN RemoveChars(Tail(s), cs)
    ELSE <<Head(s)>> \o RemoveChars(Tail(s), cs)

RECURSIVE ReplaceChars(_, _, _)
ReplaceChars(s, cs, c) ==
    IF s = <<>> THEN <<>>
    ELSE <<IF Head(s) \in cs THEN c ELSE Head(s)>> \o ReplaceChars(Tail(s), cs, c)

\* str.split(sep) for a one-character separator.
RECURSIVE SplitOn(_, _)
SplitOn(s, c) ==
    LET i == Find(s, c)
    IN  IF i = 0 THEN <<s>> ELSE <<Take(s, i - 1)>> \o SplitOn(Drop(s, i), c)

\* sep.join(parts)
RECURSIVE JoinStr(_, _)
JoinStr(parts, sep) ==
    IF parts = <<>> THEN <<>>
    ELSE IF Len(parts) = 1 THEN parts[1]
    ELSE parts[1] \o sep \o JoinStr(Tail(parts), sep)

JoinWith(parts, c) == JoinStr(parts, <<c>>)

\* The characters of the model in code point order, for str comparison.
CodeOrder == <<"\t","\n","\f","\r"," ","\"","#","'","(",")","+",",","-",".","/","0","1","2","3","4","5","6","7","8","9",":",";","=",">","?","@","A","B","C","D","E","F","G","H","I","J","K","L","M","N","O","P","Q","R","S","T","U","V","W","X","Y","Z","_","a","b","c","d","e","f","g","h","i","j","k","l","m","n","o","p","q","r","s","t","u","v","w","x","y","z","|">>

Ord(c) == CHOOSE i \in DOMAIN CodeOrder : CodeOrder[i] = c

\* a < b for Python str: lexicographic by code point.
RECURSIVE LessStr(_, _)
LessStr(a, b) ==
    IF b = <<>> THEN FALSE
    ELSE IF a = <<>> THEN TRUE
    ELSE IF Head(a) = Head(b) THEN LessStr(Tail(a), Tail(b))
    ELSE Ord(Head(a)) < Ord(Head(b))

\* sorted(S) for a set or the keys of a dict of str.
RECURSIVE sorted(_)
sorted(S) ==
    IF S = {} THEN <<>>
    ELSE LET m == CHOOSE x \in S : \A y \in S \ {x} : LessStr(x, y)
         IN  <<m>> \o sorted(S \ {m})

\* ------------------------------------------------------------------------
\* urllib.parse (CPython 3.11): urlparse, urlunparse, urljoin
\* ------------------------------------------------------------------------

SchemeChars == Range(LowerCase) \cup Range(UpperCase) \cup Range(Digits) \cup {"+", "-", "."}

Letters == Range(LowerCase) \cup Range(UpperCase)

\* The schemes of uses_relative, uses_netloc and uses_params that the model's
\* inputs can spell ("" is the empty scheme).
UsesRelative == {<<>>, <<"f","t","p">>, <<"h","t","t","p">>, <<"h","t","t","p","s">>, <<"f","i","l","e">>, <<"w","s">>, <<"w","s","s">>}

UsesNetloc == {<<>>, <<"f","t","p">>, <<"h","t","t","p">>, <<"h","t","t","p","s">>, <<"f","i","l","e">>, <<"w","s">>, <<"w","s","s">>, <<"g","i","t">>}

UsesParams == {<<>>, <<"f","t","p">>, <<"h","t","t","p">>, <<"h","t","t","p","s">>, <<"t","e","l">>, <<"s","i","p">>}

C0ControlOrSpace == {" ", "\t", "\n", "\r", "\f"}

UnsafeUrlBytes == {"\t", "\r", "\n"}

\* The text before position i (all of it when i = 0), and the text after it
\* (none when i = 0): the two halves of `a, b = s.split(c, 1)`.
BeforeAt(s, i) == IF i > 0 THEN Take(s, i - 1) ELSE s

AfterAt(s, i) == IF i > 0 THEN Drop(s, i) ELSE <<>>

BeforeChar(s, c) == BeforeAt(s, Find(s, c))

AfterChar(s, c) == AfterAt(s, Find(s, c))

\* urlsplit: whether url[:i] is a scheme (i the position of the first ":").
HasScheme(url, i) ==
    /\ i > 1
    /\ url[1] \in Letters
    /\ \A k \in 1..(i - 1) : url[k] \in SchemeChars

\* urlsplit: the query and the path.
SplitQuery(scheme, netloc, url, fragment) ==
    [scheme |-> scheme, netloc |-> netloc, path |-> BeforeChar(url, "?"),
     query |-> AfterChar(url, "?"), fragment |-> fragment]

\* urlsplit: the fragment.
SplitFragment(scheme, netloc, url) ==
    SplitQuery(scheme, netloc, BeforeChar(url, "#"), AfterChar(url, "#"))

\* _splitnetloc(url, 2): the netloc ends at the first of "/", "?", "#".
NetlocEnd(rest) == FindAny(rest, {"/", "?", "#"}) - 1

\* urlsplit: the netloc, when the text after the scheme starts with "//".
SplitNetloc(scheme, url) ==
    SplitFragment(scheme,
                  IF StartsWith(url, <<"/","/">>)
                  THEN Take(Drop(url, 2), NetlocEnd(Drop(url, 2))) ELSE <<>>,
                  IF StartsWith(url, <<"/","/">>)
                  THEN Drop(Drop(url, 2), NetlocEnd(Drop(url, 2))) ELSE url)

\* urlsplit: the scheme, given the position i of the first ":".
SplitScheme(url, i, scheme0) ==
    SplitNetloc(IF HasScheme(url, i) THEN Lower(Take(url, i - 1)) ELSE scheme0,
                IF HasScheme(url, i) THEN Drop(url, i) ELSE url)

SplitCleaned(url, scheme0) == SplitScheme(url, Find(url, ":"), scheme0)

urlsplit(url0, scheme0) ==
    SplitCleaned(RemoveChars(LStripSet(url0, C0ControlOrSpace), UnsafeUrlBytes), scheme0)

\* _splitparams, given the position i of the ";" (0 when there is none).
ParamsPosition(url) ==
    IF "/" \in Range(url) THEN FindFrom(url, ";", RFind(url, "/")) ELSE Find(url, ";")

\* urlparse: the parameters of the last path segment, split from the path.
WithParams(sp, i) ==
    [scheme |-> sp.scheme, netloc |-> sp.netloc,
     path |-> IF sp.scheme \in UsesParams THEN BeforeAt(sp.path, i) ELSE sp.path,
     params |-> IF sp.scheme \in UsesParams THEN AfterAt(sp.path, i) ELSE <<>>,
     query |-> sp.query, fragment |-> sp.fragment]

ParseSplit(sp) == WithParams(sp, ParamsPosition(sp.path))

urlparse(url, scheme0) == ParseSplit(urlsplit(url, scheme0))

\* urlunsplit: the query and the fragment.
AddQueryFragment(url, query, fragment) ==
    (IF query # <<>> THEN url \o <<"?">> \o query ELSE url)
    \o (IF fragment # <<>> THEN <<"#">> \o fragment ELSE <<>>)

\* urlunsplit: the scheme.
AddScheme(scheme, url) == IF scheme # <<>> THEN scheme \o <<":">> \o url ELSE url

\* urlunsplit: the netloc.
AddNetloc(scheme, netloc, path) ==
    IF netloc # <<>> \/ (scheme # <<>> /\ scheme \in UsesNetloc
                         /\ ~StartsWith(path, <<"/","/">>))
    THEN <<"/","/">> \o netloc
         \o (IF path # <<>> /\ Head(path) # "/" THEN <<"/">> ELSE <<>>) \o path
    ELSE path

urlunsplit(scheme, netloc, path, query, fragment) ==
    AddQueryFragment(AddScheme(scheme, AddNetloc(scheme, netloc, path)), query, fragment)

urlunparse(scheme, netloc, path, params, query, fragment) ==
    urlunsplit(scheme, netloc,
               IF params # <<>> THEN path \o <<";">> \o params ELSE path,
               query, fragment)

NonEmpty(seg) == seg # <<>>

\* segments[1:-1] = filter(None, segments[1:-1])
FilterMiddle(segments) ==
    IF Len(segments) <= 2 THEN segments
    ELSE <<Head(segments)>>
         \o SelectSeq(SubSeq(segments, 2, Len(segments) - 1), NonEmpty)
         \o <<segments[Len(segments)]>>

\* The loop of urljoin that resolves "." and ".." segments.
RECURSIVE ResolveDots(_, _)
ResolveDots(segments, resolved) ==
    IF segments = <<>> THEN resolved
    ELSE ResolveDots(Tail(segments),
            IF Head(segments) = <<".",".">>
            THEN (IF resolved = <<>> THEN <<>> ELSE Take(resolved, Len(resolved) - 1))
            ELSE IF Head(segments) = <<".">> THEN resolved
            ELSE Append(resolved, Head(segments)))

\* urljoin: base_parts, the segments of the base path without its last one
\* unless that is empty.
BaseParts(parts) ==
    IF parts[Len(parts)] # <<>> THEN Take(parts, Len(parts) - 1) ELSE parts

\* urljoin: the resolved path joined again, "/" when empty.
JoinResolved(segments) ==
    JoinWith(ResolveDots(segments, <<>>)
             \o (IF segments[Len(segments)] \in {<<".">>, <<".",".">>} THEN <<<<>>>> ELSE <<>>),
             "/")

OrSlash(path) == IF path # <<>> THEN path ELSE <<"/">>

\* urljoin: the path of the result for a non-empty relative path.
ResolvedPath(bpath, path) ==
    OrSlash(JoinResolved(IF StartsWith(path, <<"/">>) THEN SplitOn(path, "/")
                         ELSE FilterMiddle(BaseParts(SplitOn(bpath, "/"))
                                           \o SplitOn(path, "/"))))

\* urljoin, both URLs parsed: the components of the result.
JoinedParts(b, u) ==
    IF u.scheme \in UsesNetloc /\ u.netloc # <<>>
    THEN u
    ELSE IF u.path = <<>> /\ u.params = <<>>
    THEN [scheme |-> u.scheme,
          netloc |-> IF u.scheme \in UsesNetloc THEN b.netloc ELSE u.netloc,
          path |-> b.path, params |-> b.params,
          query |-> IF u.query # <<>> THEN u.query ELSE b.query,
          fragment |-> u.fragment]
    ELSE [scheme |-> u.scheme,
          netloc |-> IF u.scheme \in UsesNetloc THEN b.netloc ELSE u.netloc,
          path |-> ResolvedPath(b.path, u.path), params |-> u.params,
          query |-> u.query, fragment |-> u.fragment]

Unparse(p) == urlunparse(p.scheme, p.netloc, p.path, p.params, p.query, p.fragment)

JoinParsed(url, b, u) ==
    IF u.scheme # b.scheme \/ u.scheme \notin UsesRelative THEN url
    ELSE Unparse(JoinedParts(b, u))

JoinToBase(url, b) == JoinParsed(url, b, urlparse(url, b.scheme))

urljoin(base, url) ==
    IF base = <<>> THEN url
    ELSE IF url = <<>> THEN base
    ELSE JoinToBase(url, urlparse(base, <<>>))

\* ------------------------------------------------------------------------
\* scraper.py: the input normalizer
\* ------------------------------------------------------------------------

BASE == <<"h","t","t","p","s",":","/","/","w","w","w",".","c","a","s","i","n","o","s",".","c","o","m","/">>

INTERNAL_HOSTS == {<<"w","w","w",".","c","a","s","i","n","o","s",".","c","o","m">>, <<"c","a","s","i","n","o","s",".","c","o","m">>}

\* The outcome of a call: a returned value, or a raised exception's message.
Return(v) == [ok |-> TRUE, value |-> v]

Raise(msg) == [ok |-> FALSE, value |-> msg]

\* The last branch of normalize_to_casinos: a full URL.
NormalizeParsed(s, parsed) ==
    IF Lower(parsed.netloc) \in INTERNAL_HOSTS
    THEN Return(<<"h","t","t","p","s",":","/","/">> \o Lower(parsed.netloc) \o OrSlash(parsed.path)
                \o (IF parsed.query # <<>> THEN <<"?">> \o parsed.query ELSE <<>>))
    ELSE Raise(<<"N","o","n","-","c","a","s","i","n","o","s",".","c","o","m"," ","U","R","L"," ","n","o","t"," ","a","l","l","o","w","e","d",":"," ">> \o s)

\* normalize_to_casinos after the "www." rule.
NormalizeSchemed(s) ==
    IF ~Contains(s, <<":","/","/">>) THEN Return(urljoin(BASE, LStripSet(s, {"/"})))
    ELSE NormalizeParsed(s, urlparse(s, <<>>))

NormalizeStripped(s) ==
    IF StartsWith(s, <<"/">>) THEN Return(urljoin(BASE, LStripSet(s, {"/"})))
    ELSE NormalizeSchemed(IF ~Contains(s, <<":","/","/">>) /\ StartsWith(s, <<"w","w","w",".">>)
                          THEN <<"h","t","t","p","s",":","/","/">> \o s ELSE s)

normalize_to_casinos(url_or_path) == NormalizeStripped(Strip(url_or_path))

\* str.splitlines(): "\r\n" is one line break; no empty last line.
RECURSIVE splitlines(_)
splitlines(s) ==
    IF s = <<>> THEN <<>>
    ELSE LET i == FindAny(s, LineBreaks)
             skip == IF i < Len(s) /\ s[i] = "\r" /\ s[i + 1] = "\n" THEN i + 1 ELSE i
         IN  IF i > Len(s) THEN <<s>>
             ELSE <<Take(s, i - 1)>> \o splitlines(Drop(s, skip))

\* str.split() without arguments: the runs of non-whitespace characters.
RECURSIVE SplitWhitespace(_)
SplitWhitespace(s) ==
    LET t == LStripSet(s, WhiteSpace)
        i == FindAny(t, WhiteSpace)
    IN  IF t = <<>> THEN <<>>
        ELSE <<Take(t, i - 1)>> \o SplitWhitespace(Drop(t, i - 1))

\* A faulty variant of ReplacedSeparators: the semicolon forgotten.
ReplacedSeparatorsNoSemicolon == {",", "\t"}

\* The separators split_inputs replaces by a newline.
ReplacedSeparators == {",", "\t", ";"}

\* The inner loop of split_inputs over the tokens of one line.
RECURSIVE LineTokens(_)
LineTokens(tokens) ==
    IF tokens = <<>> THEN <<>>
    ELSE (IF Strip(Head(tokens)) # <<>> THEN <<Strip(Head(tokens))>> ELSE <<>>)
         \o LineTokens(Tail(tokens))

\* The outer loop of split_inputs over the lines.
RECURSIVE LinesTokens(_)
LinesTokens(lines) ==
    IF lines = <<>> THEN <<>>
    ELSE LineTokens(SplitWhitespace(Strip(Head(lines)))) \o LinesTokens(Tail(lines))

split_inputs(raw0) ==
    LET raw == Strip(raw0)
    IN  IF raw = <<>> THEN <<>>
        ELSE LinesTokens(splitlines(ReplaceChars(raw, ReplacedSeparators, "\n")))

\* ------------------------------------------------------------------------
\* scraper.py: the page link extractor
\* ------------------------------------------------------------------------

is_internal(href) ==
    LET parsed == urlparse(href, <<>>)
    IN  IF parsed.netloc = <<>> THEN TRUE
        ELSE Lower(parsed.netloc) \in INTERNAL_HOSTS

\* An <a href> element: its href attribute, its visible text as
\* get_text(" ", strip=True) returns it, its aria-label and title attributes
\* (<<>> when absent) and the tags of its ancestors.
Anchor(href, text, aria, title, ancestors) ==
    [href |-> href, text |-> text, aria_label |-> aria, title |-> title,
     ancestors |-> ancestors]

extract_anchor_text(a) ==
    IF a.text # <<>> THEN a.text
    ELSE IF a.aria_label # <<>> /\ Strip(a.aria_label) # <<>> THEN Strip(a.aria_label)
    ELSE IF a.title # <<>> /\ Strip(a.title) # <<>> THEN Strip(a.title)
    ELSE <<>>

href_raw(a) == Strip(a.href)

\* The anchors the loop of scrape_links passes over with `continue`.
Skipped(a) ==
    LET lowered == Lower(href_raw(a))
    IN  \/ href_raw(a) = <<>>
        \/ StartsWith(lowered, <<"#">>)
        \/ StartsWith(lowered, <<"j","a","v","a","s","c","r","i","p","t",":">>)
        \/ StartsWith(lowered, <<"m","a","i","l","t","o",":">>)
        \/ StartsWith(lowered, <<"t","e","l",":">>)

EmptyMap == [k \in {} |-> {}]

\* A faulty variant of SetDefaultAdd: m[key] = {text}, which forgets the anchor
\* texts recorded before.
SetDefaultAddOverwrites(m, key, text) ==
    [k \in DOMAIN m \cup {key} |-> IF k = key THEN {text} ELSE m[k]]

\* m.setdefault(key, set()).add(text)
SetDefaultAdd(m, key, text) ==
    [k \in DOMAIN m \cup {key} |->
        IF k = key THEN (IF key \in DOMAIN m THEN m[key] ELSE {}) \cup {text}
        ELSE m[k]]

HostIsInternal(abs_href) == Lower(urlparse(abs_href, <<>>).netloc) \in INTERNAL_HOSTS

\* One iteration of the loop of scrape_links: maps is the pair of
\* internal_map and external_map.
RecordAnchor(maps, source_url, a) ==
    LET abs_href == urljoin(source_url, href_raw(a))
        text == extract_anchor_text(a)
    IN  IF Skipped(a) THEN maps
        ELSE IF is_internal(href_raw(a)) /\ HostIsInternal(abs_href)
        THEN [maps EXCEPT !.internal = SetDefaultAdd(@, abs_href, text)]
        ELSE IF HostIsInternal(abs_href)
        THEN [maps EXCEPT !.internal = SetDefaultAdd(@, abs_href, text)]
        ELSE [maps EXCEPT !.external = SetDefaultAdd(@, abs_href, text)]

RECURSIVE RecordAnchors(_, _, _)
RecordAnchors(maps, source_url, anchors) ==
    IF anchors = <<>> THEN maps
    ELSE RecordAnchors(RecordAnchor(maps, source_url, Head(anchors)),
                       source_url, Tail(anchors))

\* {k: sorted(v) for k, v in m.items()}
SortedValues(m) == [k \in DOMAIN m |-> sorted(m[k])]

PageLinks(source_url, maps) ==
    [source_url |-> source_url,
     internal |-> SortedValues(maps.internal),
     external |-> SortedValues(maps.external)]

\* What the site answers to a GET: a status and, for a page, its anchors.
Response(status, anchors) == [status |-> status, anchors |-> anchors]

FetchErrorMessage(status) ==
    IF status = "timeout" THEN <<"t","i","m","e","d"," ","o","u","t">> ELSE <<"S","e","r","v","e","r"," ","e","r","r","o","r">>

\* scrape_links once its arguments are bound: the fetch, raise_for_status,
\* the loop over the anchors and the conversion to sorted lists.
scrape_links(source_url, response) ==
    IF response.status # "ok" THEN Raise(FetchErrorMessage(response.status))
    ELSE Return(PageLinks(source_url,
                          RecordAnchors([internal |-> EmptyMap, external |-> EmptyMap],
                                        source_url, response.anchors)))

\* The parameters of scrape_links.
ScrapeLinksParameters == {"source_url", "timeout_s"}

\* ------------------------------------------------------------------------
\* sheets_writer.py
\* ------------------------------------------------------------------------

simplify_internal_display(url) ==
    LET path == urlparse(url, <<>>).path
    IN  IF path # <<>> THEN path ELSE <<"/">>

simplify_external_display(url) ==
    LET netloc == urlparse(url, <<>>).netloc
    IN  IF netloc # <<>> THEN netloc ELSE url

RECURSIVE LinkRows(_, _, _)
LinkRows(links, data, simplify_links) ==
    IF links = <<>> THEN <<>>
    ELSE LET link == Head(links)
             anchors == SelectSeq(data[link], NonEmpty)
             display == IF simplify_links THEN simplify_internal_display(link)
                        ELSE simplify_external_display(link)
             cell == <<"=","H","Y","P","E","R","L","I","N","K","(","\"">> \o link \o <<"\"",","," ","\"">> \o display \o <<"\"",")">>
         IN  <<<<cell, JoinStr(anchors, <<" ","|"," ">>)>>>>
             \o LinkRows(Tail(links), data, simplify_links)

build_block_columns(source_url, header_left, header_right, data, simplify_links) ==
    <<<<source_url, <<>> >>, <<header_left, header_right>>>>
    \o (IF DOMAIN data = {} THEN <<<<<<"(","n","o"," ","l","i","n","k","s"," ","f","o","u","n","d",")">>, <<>> >>>>
        ELSE LinkRows(sorted(DOMAIN data), data, simplify_links))

\* A worksheet: the block of rows written at each column.
EmptySheet == [c \in {} |-> <<>>]

\* ws.update(row=1, col=col, values=block)
SheetUpdate(ws, col, block) ==
    [c \in DOMAIN ws \cup {col} |-> IF c = col THEN block ELSE ws[c]]

\* col_cursor += 3: two columns of data and one spacer.
ColumnStep == 3

InternalBlock(b) ==
    build_block_columns(b[1], <<"I","N","T","E","R","N","A","L"," ","L","I","N","K">>, <<"A","N","C","H","O","R"," ","T","E","X","T">>, b[2], TRUE)

ExternalBlock(b) ==
    build_block_columns(b[1], <<"E","X","T","E","R","N","A","L"," ","L","I","N","K">>, <<"A","N","C","H","O","R"," ","T","E","X","T">>, b[2], FALSE)

\* ------------------------------------------------------------------------
\* app.py: the /scrape handler
\* ------------------------------------------------------------------------

NonBlank(u) == u # <<>> /\ Strip(u) # <<>>

StripAll(urls) == [i \in DOMAIN urls |-> Strip(urls[i])]

\* [u.strip() for u in req.urls if u and u.strip()]
StripNonEmpty(urls) == StripAll(SelectSeq(urls, NonBlank))

\* A ScrapeRequest; an absent raw_text or urls is <<>>.
gather_inputs(r) ==
    IF r.urls # <<>> THEN StripNonEmpty(r.urls)
    ELSE IF r.raw_text # <<>> /\ Strip(r.raw_text) # <<>> THEN split_inputs(r.raw_text)
    ELSE <<>>

MinBatch == 1

MaxBatch == 150

BatchSizeOk(gathered) == MinBatch <= Len(gathered) /\ Len(gathered) <= MaxBatch

\* The positions of urls that hold the first occurrence of their value.
FirstOccurrences(urls) ==
    {i \in DOMAIN urls : \A j \in 1..(i - 1) : urls[j] # urls[i]}

\* The values of urls at the positions of first, in order.
KeepPositions(urls, first) ==
    [n \in 1..Cardinality(first) |->
        urls[CHOOSE i \in first : Cardinality({j \in first : j <= i}) = n]]

\* list(dict.fromkeys(urls)): the first occurrence of each, in order.
DictFromKeys(urls) == KeepPositions(urls, FirstOccurrences(urls))

\* A faulty variant of NormalizationError: the input left out of the message.
NormalizationErrorWithoutInput(u, e) == e

NormalizationError(u, e) == u \o <<" ","-",">"," ">> \o e

\* The try of the loop over urls_in, for each input.
Attempts(urls) == [i \in DOMAIN urls |-> [u |-> urls[i], r |-> normalize_to_casinos(urls[i])]]

Succeeded(t) == t.r.ok

Failed(t) == ~t.r.ok

NormalizedOf(successes) == [i \in DOMAIN successes |-> successes[i].r.value]

ErrorsOf(failures) ==
    [i \in DOMAIN failures |-> NormalizationError(failures[i].u, failures[i].r.value)]

Collect(attempts) ==
    [normalized |-> NormalizedOf(SelectSeq(attempts, Succeeded)),
     errors |-> ErrorsOf(SelectSeq(attempts, Failed))]

\* The loop over urls_in that fills normalized and errors.
NormalizeAll(urls) == Collect(Attempts(urls))

\* The keyword arguments of the call of scrape_links in the handler.
CallKeywords == {"ignore_header_footer"}

UnexpectedKeyword ==
    <<"s","c","r","a","p","e","_","l","i","n","k","s","(",")"," ","g","o","t"," ","a","n"," ","u","n","e","x","p","e","c","t","e","d"," ","k","e","y","w","o","r","d"," ","a","r","g","u","m","e","n","t"," ","'","i","g","n","o","r","e","_","h","e","a","d","e","r","_","f","o","o","t","e","r","'">>

\* scrape_links(u, ignore_header_footer=...): Python binds the arguments
\* before the body runs and raises TypeError for an unknown keyword.
call_scrape_links(u, keywords, response) ==
    IF ~(keywords \subseteq ScrapeLinksParameters) THEN Raise(UnexpectedKeyword)
    ELSE scrape_links(u, response)

ScrapeError(u, e) == <<"F","a","i","l","e","d"," ","t","o"," ","s","c","r","a","p","e"," ">> \o u \o <<":"," ">> \o e

\* A faulty variant of AppendBlock: blocks.insert(0, (source_url, data)).
AppendBlockInFront(blocks, source_url, data) == <<<<source_url, data>>>> \o blocks

\* blocks.append((source_url, data))
AppendBlock(blocks, source_url, data) == Append(blocks, <<source_url, data>>)

EmptyLinks == [k \in {} |-> <<>>]

NoResponse ==
    [status |-> 0, detail |-> "", input_count |-> 0, normalized_count |-> 0,
     errors |-> <<>>]

HttpError(status, detail, errs) ==
    [status |-> status, detail |-> detail, input_count |-> 0,
     normalized_count |-> 0, errors |-> errs]

BadBatchSize == "Provide between 1 and 150 URLs/paths."

NoValidInputs == "No valid casinos.com URLs/paths."

MissingConfig == "Missing env var GSHEETS_SPREADSHEET_ID"

SinkWriteError == "Failed to write to Google Sheets"

\* ------------------------------------------------------------------------
\* State
\* ------------------------------------------------------------------------

VARIABLES
    pc,                  \* where the /scrape handler is
    req,                 \* the ScrapeRequest
    env_spreadsheet_id,  \* whether GSHEETS_SPREADSHEET_ID is set
    site,                \* what the site answers to the i-th fetch
    urls_in, normalized, errors, internal_blocks, external_blocks,
    ws_int, ws_ext,      \* the INTERNAL_LINKS and EXTERNAL_LINKS worksheets
    col_cursor,          \* col_cursor of write_results
    response,            \* the HTTP response of the handler
    n_in, n_out, n_variants,      \* normalize_to_casinos: argument and results
    s_raw, s_parts,               \* split_inputs: argument and result
    x_source, x_seen, x_maps, x_page   \* one run of the extractor's loop

appVars == <<pc, req, env_spreadsheet_id, site, urls_in, normalized, errors,
             internal_blocks, external_blocks, ws_int, ws_ext, col_cursor, response>>

normVars == <<n_in, n_out, n_variants>>

splitVars == <<s_raw, s_parts>>

extractVars == <<x_source, x_seen, x_maps, x_page>>

vars == <<appVars, normVars, splitVars, extractVars>>

\* ------------------------------------------------------------------------
\* Bounds and input sets
\* ------------------------------------------------------------------------

\* The longest list of inputs of a request of Spec.
MaxUrls == 2

\* The longest raw text given to split_inputs.
MaxRawLen == 4

\* The most anchors on a page given to the extractor's loop.
MaxAnchors == 3

\* How far around MaxBatch the batches of SpecBatch go, and how many
\* repeated tokens they end with.
BatchSlack == 1

MaxRepeats == 2

SeqsUpTo(S, n) == UNION {[1..k -> S] : k \in 0..n}

InputTokens ==
    {<<"u","s","/","s","l","o","t","s">>, <<"/","u","s","/","s","l","o","t","s">>, <<"h","t","t","p","s",":","/","/","e","v","i","l",".","c","o","m","/","x">>, <<"h","t","t","p","s",":","/","/","c","a","s","i","n","o","s",".","c","o","m","/","a","?","b","=","1">>}

RawTexts == {<<"u","s","/","s","l","o","t","s",","," ","h","t","t","p","s",":","/","/","e","v","i","l",".","c","o","m","/","x">>, <<"w","w","w",".","e","v","i","l",".","c","o","m",";","\n">>, <<" ","\t">>}

Requests ==
    {[urls |-> u, raw_text |-> <<>>, ignore_header_footer |-> f] :
        u \in SeqsUpTo(InputTokens, MaxUrls), f \in BOOLEAN}
    \cup {[urls |-> <<>>, raw_text |-> t, ignore_header_footer |-> f] :
        t \in RawTexts, f \in BOOLEAN}

PageAnchors ==
    <<Anchor(<<"/","a","b","o","u","t">>, <<"A","b","o","u","t">>, <<>>, <<>>, {"main"}),
      Anchor(<<"h","t","t","p","s",":","/","/","p","a","r","t","n","e","r",".","e","x","a","m","p","l","e",".","c","o","m","/","o","f","f","e","r">>, <<"O","f","f","e","r">>, <<>>, <<>>, {"main"}),
      Anchor(<<"/","t","e","r","m","s">>, <<"T","e","r","m","s">>, <<>>, <<>>, {"footer"}),
      Anchor(<<"h","t","t","p","s",":","/","/","s","o","c","i","a","l",".","e","x","a","m","p","l","e",".","c","o","m","/">>, <<>>, <<"F","o","l","l","o","w"," ","u","s">>, <<>>, {"div", "nav"})>>

Responses == {Response("ok", PageAnchors), Response("timeout", <<>>)}

\* What a previous request published.
PreviousUrls ==
    <<<<"h","t","t","p","s",":","/","/","w","w","w",".","c","a","s","i","n","o","s",".","c","o","m","/","o","l","d">>, <<"h","t","t","p","s",":","/","/","w","w","w",".","c","a","s","i","n","o","s",".","c","o","m","/","o","l","d","e","r">>,
      <<"h","t","t","p","s",":","/","/","w","w","w",".","c","a","s","i","n","o","s",".","c","o","m","/","o","l","d","e","s","t">>, <<"h","t","t","p","s",":","/","/","w","w","w",".","c","a","s","i","n","o","s",".","c","o","m","/","f","i","r","s","t">>>>

PreviousBlocks == [i \in DOMAIN PreviousUrls |-> <<PreviousUrls[i], EmptyLinks>>]

\* The worksheet write_results leaves when every call succeeds.
Column(k) == 1 + ColumnStep * (k - 1)

InternalSheetOf(blocks) ==
    [c \in {Column(k) : k \in DOMAIN blocks} |->
        InternalBlock(blocks[((c - 1) \div ColumnStep) + 1])]

ExternalSheetOf(blocks) ==
    [c \in {Column(k) : k \in DOMAIN blocks} |->
        ExternalBlock(blocks[((c - 1) \div ColumnStep) + 1])]

InitApp(requests, sites) ==
    /\ pc = "received"
    /\ req \in requests
    /\ env_spreadsheet_id \in BOOLEAN
    /\ site \in sites
    /\ urls_in = <<>> /\ normalized = <<>> /\ errors = <<>>
    /\ internal_blocks = <<>> /\ external_blocks = <<>>
    /\ ws_int = InternalSheetOf(PreviousBlocks)
    /\ ws_ext = ExternalSheetOf(PreviousBlocks)
    /\ col_cursor = 1
    /\ response = NoResponse

IdleApp ==
    /\ pc = "idle"
    /\ req = [urls |-> <<>>, raw_text |-> <<>>, ignore_header_footer |-> FALSE]
    /\ env_spreadsheet_id = FALSE
    /\ site = <<>>
    /\ urls_in = <<>> /\ normalized = <<>> /\ errors = <<>>
    /\ internal_blocks = <<>> /\ external_blocks = <<>>
    /\ ws_int = EmptySheet /\ ws_ext = EmptySheet
    /\ col_cursor = 1
    /\ response = NoResponse

IdleNorm == n_in = <<>> /\ n_out = <<>> /\ n_variants = <<>>

IdleSplit == s_raw = <<>> /\ s_parts = <<>>

IdleExtract ==
    /\ x_source = <<>> /\ x_seen = <<>>
    /\ x_maps = [internal |-> EmptyMap, external |-> EmptyMap]
    /\ x_page = <<>>

\* ------------------------------------------------------------------------
\* The /scrape handler, step by step
\* ------------------------------------------------------------------------

Respond(r) == pc' = "responded" /\ response' = r

\* gather_inputs, the batch size check, the deduplication and the
\* normalization loop, up to the first await.
ScrapeBegin ==
    /\ pc = "received"
    /\ LET gathered == gather_inputs(req)
           deduped == DictFromKeys(gathered)
           res == NormalizeAll(deduped)
       IN  IF ~BatchSizeOk(gathered)
           THEN /\ Respond(HttpError(400, BadBatchSize, <<>>))
                /\ urls_in' = gathered
                /\ UNCHANGED <<normalized, errors>>
           ELSE /\ urls_in' = deduped
                /\ normalized' = res.normalized
                /\ errors' = res.errors
                /\ IF res.normalized = <<>>
                   THEN Respond(HttpError(400, NoValidInputs, res.errors))
                   ELSE pc' = "scraping" /\ UNCHANGED response
    /\ UNCHANGED <<req, env_spreadsheet_id, site, internal_blocks, external_blocks,
                   ws_int, ws_ext, col_cursor>>
    /\ UNCHANGED <<normVars, splitVars, extractVars>>

\* One iteration of the loop over normalized: the call of scrape_links and
\* its except branch.
ScrapeOne ==
    /\ pc = "scraping"
    /\ LET i == Len(internal_blocks) + 1
           u == normalized[i]
           r == call_scrape_links(u, CallKeywords, site[i])
       IN  /\ IF r.ok
              THEN /\ internal_blocks' = AppendBlock(internal_blocks, r.value.source_url,
                                                     r.value.internal)
                   /\ external_blocks' = AppendBlock(external_blocks, r.value.source_url,
                                                     r.value.external)
                   /\ UNCHANGED errors
              ELSE /\ internal_blocks' = AppendBlock(internal_blocks, u, EmptyLinks)
                   /\ external_blocks' = AppendBlock(external_blocks, u, EmptyLinks)
                   /\ errors' = Append(errors, ScrapeError(u, r.value))
           /\ pc' = IF i = Len(normalized) THEN "config" ELSE "scraping"
    /\ UNCHANGED <<req, env_spreadsheet_id, site, urls_in, normalized,
                   ws_int, ws_ext, col_cursor, response>>
    /\ UNCHANGED <<normVars, splitVars, extractVars>>

\* os.environ.get("GSHEETS_SPREADSHEET_ID") and its check.
CheckConfig ==
    /\ pc = "config"
    /\ IF ~env_spreadsheet_id
       THEN Respond(HttpError(500, MissingConfig, <<>>))
       ELSE pc' = "open" /\ UNCHANGED response
    /\ UNCHANGED <<req, env_spreadsheet_id, site, urls_in, normalized, errors,
                   internal_blocks, external_blocks, ws_int, ws_ext, col_cursor>>
    /\ UNCHANGED <<normVars, splitVars, extractVars>>

SinkFails == Respond(HttpError(500, SinkWriteError, <<>>))

\* write_results: the client, the spreadsheet and the two worksheets.
WriteOpen ==
    /\ pc = "open"
    /\ \E fails \in BOOLEAN :
          IF fails THEN SinkFails ELSE pc' = "clear_int" /\ UNCHANGED response
    /\ UNCHANGED <<req, env_spreadsheet_id, site, urls_in, normalized, errors,
                   internal_blocks, external_blocks, ws_int, ws_ext, col_cursor>>
    /\ UNCHANGED <<normVars, splitVars, extractVars>>

\* ws_int.clear(), then ws_ext.clear().
WriteClear ==
    /\ pc \in {"clear_int", "clear_ext"}
    /\ \E fails \in BOOLEAN :
          IF fails THEN SinkFails /\ UNCHANGED <<ws_int, ws_ext, col_cursor>>
          ELSE IF pc = "clear_int"
          THEN /\ ws_int' = EmptySheet
               /\ pc' = "clear_ext"
               /\ UNCHANGED <<ws_ext, col_cursor, response>>
          ELSE /\ ws_ext' = EmptySheet
               /\ col_cursor' = 1
               /\ pc' = "write_int"
               /\ UNCHANGED <<ws_int, response>>
    /\ UNCHANGED <<req, env_spreadsheet_id, site, urls_in, normalized, errors,
                   internal_blocks, external_blocks>>
    /\ UNCHANGED <<normVars, splitVars, extractVars>>

\* The block col_cursor stands at.
BlockIndex == ((col_cursor - 1) \div ColumnStep) + 1

\* One iteration of the loop over internal_blocks.
WriteInternal ==
    /\ pc = "write_int"
    /\ \E fails \in BOOLEAN :
          IF fails THEN SinkFails /\ UNCHANGED <<ws_int, col_cursor>>
          ELSE /\ ws_int' = SheetUpdate(ws_int, col_cursor,
                                        InternalBlock(internal_blocks[BlockIndex]))
               /\ IF BlockIndex = Len(internal_blocks)
                  THEN col_cursor' = 1 /\ pc' = "write_ext"
                  ELSE col_cursor' = col_cursor + ColumnStep /\ pc' = "write_int"
               /\ UNCHANGED response
    /\ UNCHANGED <<req, env_spreadsheet_id, site, urls_in, normalized, errors,
                   internal_blocks, external_blocks, ws_ext>>
    /\ UNCHANGED <<normVars, splitVars, extractVars>>

\* One iteration of the loop over external_blocks; after the last, the
\* handler returns its summary.
WriteExternal ==
    /\ pc = "write_ext"
    /\ \E fails \in BOOLEAN :
          IF fails THEN SinkFails /\ UNCHANGED <<ws_ext, col_cursor>>
          ELSE /\ ws_ext' = SheetUpdate(ws_ext, col_cursor,
                                        ExternalBlock(external_blocks[BlockIndex]))
               /\ IF BlockIndex = Len(external_blocks)
                  THEN /\ UNCHANGED col_cursor
                       /\ Respond([status |-> 200, detail |-> "ok",
                                   input_count |-> Len(urls_in),
                                   normalized_count |-> Len(normalized),
                                   errors |-> errors])
                  ELSE /\ col_cursor' = col_cursor + ColumnStep
                       /\ pc' = "write_ext"
                       /\ UNCHANGED response
    /\ UNCHANGED <<req, env_spreadsheet_id, site, urls_in, normalized, errors,
                   internal_blocks, external_blocks, ws_int>>
    /\ UNCHANGED <<normVars, splitVars, extractVars>>

Init ==
    /\ InitApp(Requests, [1..MaxUrls -> Responses])
    /\ IdleNorm /\ IdleSplit /\ IdleExtract

Next ==
    \/ ScrapeBegin
    \/ ScrapeOne
    \/ CheckConfig
    \/ WriteOpen
    \/ WriteClear
    \/ WriteInternal
    \/ WriteExternal

Spec == Init /\ [][Next]_vars

\* ------------------------------------------------------------------------
\* SpecBatch: the handler on batches around the size limit
\* ------------------------------------------------------------------------

RECURSIVE Decimal(_)
Decimal(n) ==
    IF n < 10 THEN <<Digits[n + 1]>>
    ELSE Decimal(n \div 10) \o <<Digits[(n % 10) + 1]>>

\* The n-th of a family of distinct relative paths: p1, p2, ...
Token(n) == <<"p">> \o Decimal(n)

FillCounts == {0, 1} \cup ((MaxBatch - BatchSlack)..(MaxBatch + BatchSlack))

\* n distinct tokens followed by r repetitions of the first.
BatchRequests ==
    {[urls |-> [i \in 1..n |-> Token(i)] \o [i \in 1..r |-> Token(1)],
      raw_text |-> <<>>, ignore_header_footer |-> FALSE] :
        n \in FillCounts, r \in 0..MaxRepeats}

InitBatch ==
    /\ InitApp(BatchRequests, {[i \in 1..MaxBatch |-> Response("ok", PageAnchors)]})
    /\ IdleNorm /\ IdleSplit /\ IdleExtract

SpecBatch == InitBatch /\ [][Next]_vars

\* ------------------------------------------------------------------------
\* SpecNorm: normalize_to_casinos applied to one token
\* ------------------------------------------------------------------------

NormPrefixes ==
    {<<>>, <<"/">>, <<"/","/">>, <<"h","t","t","p","s",":","/","/">>, <<"h","t","t","p",":","/","/">>, <<"H","T","T","P","S",":","/","/">>, <<"f","t","p",":","/","/">>,
     <<"m","a","i","l","t","o",":">>, <<"j","a","v","a","s","c","r","i","p","t",":">>, <<"h","t","t","p",":">>, <<"h","t","t","p","s",":">>, <<"w","w","w",".">>}

NormHosts ==
    {<<>>, <<"w","w","w",".","c","a","s","i","n","o","s",".","c","o","m">>, <<"c","a","s","i","n","o","s",".","c","o","m">>, <<"W","W","W",".","C","a","s","i","n","o","s",".","c","o","m">>, <<"e","v","i","l",".","c","o","m">>,
     <<"c","a","s","i","n","o","s",".","c","o","m",".","e","v","i","l",".","c","o","m">>, <<"c","a","s","i","n","o","s",".","c","o","m",":","4","4","3">>, <<"u","s","e","r","@","c","a","s","i","n","o","s",".","c","o","m">>}

NormPaths ==
    {<<>>, <<"/">>, <<"u","s","/","s","l","o","t","s">>, <<"/","u","s","/","s","l","o","t","s">>, <<"/","u","s","/","s","l","o","t","s","?","a","=","1">>, <<"u","s","/",".",".","/","s","l","o","t","s">>,
     <<"x","#","f">>, <<"/","a",";","b">>, <<"?","q","=","1">>, <<"a","/","/","b">>}

NormTokens ==
    {p \o h \o t : p \in NormPrefixes, h \in NormHosts, t \in NormPaths} \ {<<>>}

InitNorm ==
    /\ IdleApp /\ IdleSplit /\ IdleExtract
    /\ n_in \in NormTokens
    /\ n_out = <<>>
    /\ n_variants = <<>>

\* normalize_to_casinos(n_in)
NormalizeInput ==
    /\ n_out = <<>>
    /\ n_out' = <<normalize_to_casinos(n_in)>>
    /\ UNCHANGED <<n_in, n_variants>>
    /\ UNCHANGED <<appVars, splitVars, extractVars>>

\* normalize_to_casinos("/" + n_in) and
\* normalize_to_casinos("https://www.casinos.com/" + n_in)
NormalizeVariants ==
    /\ n_variants = <<>>
    /\ n_variants' = <<normalize_to_casinos(<<"/">> \o n_in),
                       normalize_to_casinos(BASE \o n_in)>>
    /\ UNCHANGED <<n_in, n_out>>
    /\ UNCHANGED <<appVars, splitVars, extractVars>>

NextNorm == NormalizeInput \/ NormalizeVariants

SpecNorm == InitNorm /\ [][NextNorm]_vars

\* ------------------------------------------------------------------------
\* SpecSplit: split_inputs applied to one raw text
\* ------------------------------------------------------------------------

SplitAlphabet == {"a", "b", ",", "\t", ";", "\n", " ", "\r"}

InitSplit ==
    /\ IdleApp /\ IdleNorm /\ IdleExtract
    /\ s_raw \in SeqsUpTo(SplitAlphabet, MaxRawLen)
    /\ s_parts = <<>>

\* split_inputs(s_raw)
SplitInputs ==
    /\ s_parts = <<>>
    /\ s_parts' = <<split_inputs(s_raw)>>
    /\ UNCHANGED s_raw
    /\ UNCHANGED <<appVars, normVars, extractVars>>

NextSplit == SplitInputs

SpecSplit == InitSplit /\ [][NextSplit]_vars

\* ------------------------------------------------------------------------
\* SpecExtract: the loop of scrape_links over the anchors of one page
\* ------------------------------------------------------------------------

ExtractSources == {<<"h","t","t","p","s",":","/","/","w","w","w",".","c","a","s","i","n","o","s",".","c","o","m","/","u","s","/","s","l","o","t","s">>, <<"h","t","t","p","s",":","/","/","c","a","s","i","n","o","s",".","c","o","m","/">>}

AnchorPool ==
    {Anchor(<<"/","a","b","o","u","t">>, <<"P","l","a","y">>, <<>>, <<>>, {"main"}),
     Anchor(<<"/","a","b","o","u","t">>, <<"A","b","o","u","t">>, <<>>, <<>>, {"nav"}),
     Anchor(<<" ","/","a","b","o","u","t">>, <<>>, <<>>, <<>>, {"main"}),
     Anchor(<<"/","a","b","o","u","t">>, <<>>, <<" ">>, <<" ","p","l","a","y"," ">>, {"footer"}),
     Anchor(<<"h","t","t","p","s",":","/","/","p","a","r","t","n","e","r",".","e","x","a","m","p","l","e",".","c","o","m","/","o","f","f","e","r">>, <<"O","f","f","e","r">>, <<>>, <<>>, {"main"}),
     Anchor(<<"h","t","t","p","s",":","/","/","p","a","r","t","n","e","r",".","e","x","a","m","p","l","e",".","c","o","m","/","o","f","f","e","r">>, <<>>, <<"B","e","s","t"," ","o","f","f","e","r">>, <<>>, {"main"}),
     Anchor(<<"H","T","T","P","S",":","/","/","W","W","W",".","C","a","s","i","n","o","s",".","c","o","m","/","a","b","o","u","t">>, <<"A","b","o","u","t">>, <<>>, <<>>, {"header"}),
     Anchor(<<"h","t","t","p","s",":","/","/","w","w","w",".","c","a","s","i","n","o","s",".","c","o","m",":","4","4","3","/","a","b","o","u","t">>, <<"A","b","o","u","t">>, <<>>, <<>>, {"main"}),
     Anchor(<<"#","t","o","p">>, <<"T","o","p">>, <<>>, <<>>, {"main"})}

InitExtract ==
    /\ IdleApp /\ IdleNorm /\ IdleSplit
    /\ x_source \in ExtractSources
    /\ x_seen = <<>>
    /\ x_maps = [internal |-> EmptyMap, external |-> EmptyMap]
    /\ x_page = <<>>

\* One iteration of `for a in soup.select("a[href]")`: the page's next anchor
\* is any of AnchorPool, and a page has at most MaxAnchors of them.
ExtractAnchor ==
    /\ x_page = <<>>
    /\ Len(x_seen) < MaxAnchors
    /\ \E a \in AnchorPool :
          /\ x_maps' = RecordAnchor(x_maps, x_source, a)
          /\ x_seen' = Append(x_seen, a)
    /\ UNCHANGED <<x_source, x_page>>
    /\ UNCHANGED <<appVars, normVars, splitVars>>

\* After the loop: the sets sorted into lists and the PageLinks returned.
ExtractFinish ==
    /\ x_page = <<>>
    /\ x_page' = <<PageLinks(x_source, x_maps)>>
    /\ UNCHANGED <<x_source, x_seen, x_maps>>
    /\ UNCHANGED <<appVars, normVars, splitVars>>

NextExtract == ExtractAnchor \/ ExtractFinish

SpecExtract == InitExtract /\ [][NextExtract]_vars

\* ------------------------------------------------------------------------
\* Properties
\* ------------------------------------------------------------------------

Responded == pc = "responded"

Succeeded200 == Responded /\ response.status = 200

\* C1 (SpecBatch): once the batch size has been checked, the request is
\* rejected with BadBatchSize if and only if the number of distinct raw
\* tokens is 0 or greater than 150; so more than 150 tokens with at most 150
\* distinct ones are accepted.
C1_SizeCheckedAfterDedup ==
    pc # "received" =>
        ((response.detail = BadBatchSize)
            <=> Cardinality(Range(gather_inputs(req))) \notin MinBatch..MaxBatch)

\* The host of a URL that starts with "https://".
HttpsHost(u) == Take(Drop(u, 8), FindAny(Drop(u, 8), {"/", "?", "#"}) - 1)

IsCanonicalURL(u) == StartsWith(u, <<"h","t","t","p","s",":","/","/">>) /\ HttpsHost(u) \in INTERNAL_HOSTS

\* C2 (SpecNorm): whatever normalize_to_casinos returns is a canonical URL:
\* it starts with https:// and its host is exactly www.casinos.com or
\* casinos.com.
C2_NormalizedIsCanonical ==
    (n_out # <<>> /\ n_out[1].ok) => IsCanonicalURL(n_out[1].value)

RelativePath(p) ==
    ~Contains(p, <<":","/","/">>) /\ ~StartsWith(p, <<"/">>) /\ ~StartsWith(p, <<"w","w","w",".">>)

\* C3 (SpecNorm): for a relative path p, normalize_to_casinos(p),
\* normalize_to_casinos("/" + p) and
\* normalize_to_casinos("https://www.casinos.com/" + p) return the same URL:
\* https://www.casinos.com/ followed by the path and query of p verbatim.
C3_RelativeFormsAgree ==
    (n_out # <<>> /\ n_variants # <<>> /\ RelativePath(n_in)) =>
        /\ n_out[1] = Return(BASE \o BeforeChar(n_in, "#"))
        /\ n_variants[1] = n_out[1]
        /\ n_variants[2] = n_out[1]

ScrapeErrorPrefix(u) == <<"F","a","i","l","e","d"," ","t","o"," ","s","c","r","a","p","e"," ">> \o u \o <<":"," ">>

ScrapeErrorsFor(u) ==
    Cardinality({k \in DOMAIN response.errors :
                    StartsWith(response.errors[k], ScrapeErrorPrefix(u))})

FailedFetchesOf(u) ==
    Cardinality({j \in DOMAIN normalized :
                    normalized[j] = u /\ site[j].status # "ok"})

\* C4 (Spec): in a successful response, a URL whose fetch succeeds contributes
\* the extractor's mappings of its page and no error string, and a URL whose
\* fetch fails contributes empty mappings and exactly one error string
\* "Failed to scrape <url>: <reason>".
C4_FailuresIsolated ==
    Succeeded200 =>
        \A i \in DOMAIN normalized :
            /\ ScrapeErrorsFor(normalized[i]) = FailedFetchesOf(normalized[i])
            /\ IF site[i].status = "ok"
               THEN /\ internal_blocks[i] =
                         <<normalized[i], scrape_links(normalized[i], site[i]).value.internal>>
                    /\ external_blocks[i] =
                         <<normalized[i], scrape_links(normalized[i], site[i]).value.external>>
               ELSE /\ internal_blocks[i] = <<normalized[i], EmptyLinks>>
                    /\ external_blocks[i] = <<normalized[i], EmptyLinks>>

Landmarks == {"header", "footer", "nav"}

\* The URLs of the anchors of a page that are to be recorded.
ExpectedLinks(source_url, anchors, ignore) ==
    {urljoin(source_url, href_raw(anchors[k])) :
        k \in {j \in DOMAIN anchors :
                 /\ ~Skipped(anchors[j])
                 /\ (ignore => anchors[j].ancestors \cap Landmarks = {})}}

\* C5 (Spec): in a successful response, the links recorded for a fetched page
\* are those of its anchors, without the anchors inside <header>, <footer>
\* or <nav> when ignore_header_footer is set and with them when it is not.
C5_LandmarkAnchorsIgnored ==
    Succeeded200 =>
        \A i \in DOMAIN normalized :
            site[i].status = "ok" =>
                DOMAIN internal_blocks[i][2] \cup DOMAIN external_blocks[i][2]
                    = ExpectedLinks(normalized[i], site[i].anchors,
                                    req.ignore_header_footer)

SinkInvoked == pc \in {"open", "clear_int", "clear_ext", "write_int", "write_ext"}

\* C6 (Spec): when the sink is invoked, the internal and the external list
\* handed to it have one entry per normalized URL, in the order of
\* normalization, with that URL as its source URL.
C6_NoUrlDroppedOrReordered ==
    SinkInvoked =>
        /\ Len(internal_blocks) = Len(normalized)
        /\ Len(external_blocks) = Len(normalized)
        /\ \A i \in DOMAIN normalized :
              internal_blocks[i][1] = normalized[i] /\ external_blocks[i][1] = normalized[i]

C6_Witness ==
    /\ pc = "write_ext"
    /\ Len(normalized) >= 2
    /\ normalized[1] # normalized[2]
    /\ Len(internal_blocks) = Len(normalized)

Fails(u) == ~normalize_to_casinos(u).ok

ExpectedNormalizationErrors(inputs) ==
    [i \in DOMAIN SelectSeq(inputs, Fails) |->
        SelectSeq(inputs, Fails)[i] \o <<" ","-",">"," ">>
            \o normalize_to_casinos(SelectSeq(inputs, Fails)[i]).value]

SizeAccepted == pc # "received" /\ response.detail # BadBatchSize

\* C7 (Spec): for a batch of accepted size, the errors start with one string
\* "<input> -> <reason>" per input that fails normalization, in input order;
\* the request fails with NoValidInputs (status 400, nothing extracted,
\* nothing written) exactly when no input normalizes; and a successful
\* response has input_count = normalized_count + the number of those strings.
C7_NormalizationFailuresCollected ==
    SizeAccepted =>
        /\ urls_in = DictFromKeys(gather_inputs(req))
        /\ Take(errors, Len(ExpectedNormalizationErrors(urls_in)))
              = ExpectedNormalizationErrors(urls_in)
        /\ \A k \in (Len(ExpectedNormalizationErrors(urls_in)) + 1)..Len(errors) :
              StartsWith(errors[k], <<"F","a","i","l","e","d"," ","t","o"," ","s","c","r","a","p","e"," ">>)
        /\ (response.detail = NoValidInputs) <=> (\A i \in DOMAIN urls_in : Fails(urls_in[i]))
        /\ response.detail = NoValidInputs =>
              /\ response.status = 400
              /\ internal_blocks = <<>> /\ external_blocks = <<>>
              /\ ws_int = InternalSheetOf(PreviousBlocks)
              /\ ws_ext = ExternalSheetOf(PreviousBlocks)
        /\ Succeeded200 =>
              /\ response.errors = errors
              /\ response.normalized_count = Len(urls_in) - Len(SelectSeq(urls_in, Fails))
              /\ response.input_count = response.normalized_count
                    + Len(ExpectedNormalizationErrors(urls_in))

C7_Witness ==
    /\ Succeeded200
    /\ Len(ExpectedNormalizationErrors(urls_in)) >= 1
    /\ response.normalized_count >= 1
    /\ response.input_count = 2

\* C8 (Spec): a request that ends in a fatal failure leaves the two
\* worksheets either with what was published before or with the whole new
\* batch, and a successful request leaves them with the new batch only.
C8_NoPartialSinkWrite ==
    Responded =>
        \/ /\ response.status # 200
           /\ ws_int = InternalSheetOf(PreviousBlocks)
           /\ ws_ext = ExternalSheetOf(PreviousBlocks)
        \/ /\ ws_int = InternalSheetOf(internal_blocks)
           /\ ws_ext = ExternalSheetOf(external_blocks)

\* The anchors seen so far that the loop records.
Recorded == {j \in DOMAIN x_seen : ~Skipped(x_seen[j])}

ResolvedOf(j) == urljoin(x_source, href_raw(x_seen[j]))

\* The anchor texts observed so far for a resolved URL.
Observed(url) ==
    {extract_anchor_text(x_seen[j]) : j \in {k \in Recorded : ResolvedOf(k) = url}}

StrictlyAscending(texts) ==
    \A i \in 1..(Len(texts) - 1) : LessStr(texts[i], texts[i + 1])

ListsObserved(m) ==
    \A url \in DOMAIN m : StrictlyAscending(m[url]) /\ Range(m[url]) = Observed(url)

\* C9 (SpecExtract): after any sequence of anchors, each resolved URL is a
\* single key whose value is the set of distinct anchor texts observed for it,
\* and in the returned page that value is a duplicate-free list in ascending
\* order; an empty anchor text is recorded as the empty string only.
C9_DistinctSortedAnchorTexts ==
    /\ DOMAIN x_maps.internal \cap DOMAIN x_maps.external = {}
    /\ DOMAIN x_maps.internal \cup DOMAIN x_maps.external = {ResolvedOf(j) : j \in Recorded}
    /\ \A url \in DOMAIN x_maps.internal : x_maps.internal[url] = Observed(url)
    /\ \A url \in DOMAIN x_maps.external : x_maps.external[url] = Observed(url)
    /\ x_page # <<>> =>
          /\ DOMAIN x_page[1].internal = DOMAIN x_maps.internal
          /\ DOMAIN x_page[1].external = DOMAIN x_maps.external
          /\ ListsObserved(x_page[1].internal)
          /\ ListsObserved(x_page[1].external)

C9_Witness ==
    /\ x_page # <<>>
    /\ \E url \in DOMAIN x_page[1].internal :
          /\ Len(x_page[1].internal[url]) = 3
          /\ x_page[1].internal[url][1] = <<>>

\* The separators the claim about split_inputs names.
NamedSeparators == {",", "\t", ";", "\n", " "}

\* The maximal runs of characters of s that are not in seps.
RECURSIVE TokensBetween(_, _)
TokensBetween(s, seps) ==
    IF LStripSet(s, seps) = <<>> THEN <<>>
    ELSE <<Take(LStripSet(s, seps), FindAny(LStripSet(s, seps), seps) - 1)>>
         \o TokensBetween(Drop(LStripSet(s, seps), FindAny(LStripSet(s, seps), seps) - 1),
                          seps)

\* C10 as stated (SpecSplit): tokens that hold no comma, tab, semicolon,
\* newline or space, joined by any of these, come back exactly, in order.
C10_SeparatorIndependentAsStated ==
    s_parts # <<>> => s_parts[1] = TokensBetween(s_raw, NamedSeparators)

\* C10 (SpecSplit): tokens that hold no comma, no semicolon and no
\* whitespace character at all, joined by any choice of commas, tabs,
\* semicolons, newlines and spaces, come back exactly, in order, repeated
\* tokens kept and no empty token.
C10_SeparatorIndependent ==
    (s_parts # <<>> /\ Range(s_raw) \cap (WhiteSpace \ NamedSeparators) = {}) =>
        s_parts[1] = TokensBetween(s_raw, NamedSeparators)

C10_Witness ==
    /\ s_parts # <<>>
    /\ Range(s_raw) \cap (WhiteSpace \ NamedSeparators) = {}
    /\ Len(s_parts[1]) = 2
    /\ s_parts[1][1] = s_parts[1][2]
    /\ \E i \in 1..(Len(s_raw) - 1) :
          s_raw[i] \in NamedSeparators /\ s_raw[i + 1] \in NamedSeparators
                                       /\ s_raw[i] # s_raw[i + 1]

\* The authority of a URL without its userinfo (everything up to the last
\* "@") and the host of that: the part before the port's ":" (bracketed IPv6
\* literals are outside the inputs), in lower case.
HostPort(netloc) == Drop(netloc, RFind(netloc, "@"))

HostOf(url) == Lower(BeforeChar(HostPort(urlparse(url, <<>>).netloc), ":"))

\* The authority of a URL as written, userinfo and port included, in lower
\* case.
NetlocOf(url) == Lower(urlparse(url, <<>>).netloc)

HasHostComponent(href) == urlparse(href, <<>>).netloc # <<>>

\* Every recorded anchor is under its resolved URL in exactly one mapping.
InExactlyOneMapping ==
    /\ DOMAIN x_maps.internal \cap DOMAIN x_maps.external = {}
    /\ \A j \in Recorded :
          ResolvedOf(j) \in DOMAIN x_maps.internal \cup DOMAIN x_maps.external

\* C11 (SpecExtract): every anchor that is not skipped is in exactly one of
\* the two mappings under its resolved URL, and it is in the internal one if
\* and only if the host of the resolved URL, in lower case, is
\* www.casinos.com or casinos.com, whether or not the raw href had a host.
C11_ClassifiedByResolvedHost ==
    /\ InExactlyOneMapping
    /\ \A j \in Recorded :
          ResolvedOf(j) \in DOMAIN x_maps.internal
              <=> HostOf(ResolvedOf(j)) \in INTERNAL_HOSTS

\* The rule both branches of the loop implement: the whole authority of the
\* resolved URL, in lower case, is one of INTERNAL_HOSTS.
ClassifiedByResolvedNetloc ==
    /\ InExactlyOneMapping
    /\ \A j \in Recorded :
          ResolvedOf(j) \in DOMAIN x_maps.internal
              <=> NetlocOf(ResolvedOf(j)) \in INTERNAL_HOSTS

\* Hrefs with and without a host component have both been classified
\* internal, and one with a host component external.
BothBranchesTaken ==
    /\ \E j \in Recorded : /\ HasHostComponent(href_raw(x_seen[j]))
                            /\ ResolvedOf(j) \in DOMAIN x_maps.internal
    /\ \E j \in Recorded : /\ ~HasHostComponent(href_raw(x_seen[j]))
                            /\ ResolvedOf(j) \in DOMAIN x_maps.internal
    /\ \E j \in Recorded : ResolvedOf(j) \in DOMAIN x_maps.external

====
